---- MODULE Spec2Model ----
(***************************************************************************)
(* Model of nette/vite-plugin (src/unnamed/part_000, the plugin source the *)
(* tests in src/unnamed/part_001 exercise).                                 *)
(*                                                                         *)
(* Two components:                                                         *)
(*   - the Configuration Resolver: the plugin's config() hook, a function  *)
(*     of the user's Vite configuration, the plugin options and the        *)
(*     filesystem;                                                         *)
(*   - the Dev-Server Coordinator: generateInfoFile(), which subscribes to *)
(*     the HTTP listener's "listening" and "close" events and to SIGINT.   *)
(*                                                                         *)
(* JavaScript values are tagged records ([t |-> "undefined"], strings,     *)
(* booleans, arrays, objects); path-valued strings are kept parsed as      *)
(* [abs, segs].  The filesystem is the set of existing directories plus a  *)
(* function from the existing files to their contents.                     *)
(***************************************************************************)
EXTENDS Integers, Sequences, FiniteSets, TLC

VARIABLES
    phase,              \* position in Vite's hook pipeline
    pluginConfig,       \* module-level `let pluginConfig`      (part_000:12)
    ownOptions,         \* the options the first plugin was constructed with
    resolvedConfig,     \* module-level `let resolvedConfig`    (part_000:11)
    userConfig,         \* argument of the config() hook, while in flight
    configResult,       \* return value / exception of the config() hook
    probed,             \* paths the Resolver has called fs.existsSync on
    hasHttpServer,      \* devServer.httpServer is present
    fsDirs,             \* filesystem: existing directories
    fsFiles,            \* filesystem: existing files |-> contents
    listeningHandlers,  \* httpServer 'listening' listeners, registration order
    closeHandlers,      \* httpServer 'close' listeners, registration order
    sigintHandlers,     \* process 'SIGINT' listeners, registration order
    recent,             \* the first listener's latest lifecycle events, oldest first
    everListened,       \* a 'listening' event has been delivered by the first listener
    lastPort,           \* httpServer.address().port at the last 'listening'
    prevPort,           \* the port the first listener had when it last emitted 'close'
    lastWrite,          \* what the last writeJson() call saw and did
    closeRequested,     \* httpServer.close() has been called, 'close' pending
    sigints,            \* number of interrupts delivered
    proc,               \* "running" | "exited" | "crashed"
    exitCode            \* process exit status once proc # "running"

vars == << phase, pluginConfig, ownOptions, resolvedConfig, userConfig, configResult, probed,
           hasHttpServer, fsDirs, fsFiles, listeningHandlers, closeHandlers,
           sigintHandlers, recent, everListened, lastPort, prevPort,
           lastWrite, closeRequested, sigints, proc, exitCode >>

----------------------------------------------------------------------------
(* Bounds of the model *)

\* interrupts delivered to one process
MaxSigint == 2

\* how many of the latest listener events are remembered
EventWindow == 3

\* Coordinators attached in one process
MaxAttach == 2

----------------------------------------------------------------------------
(* JavaScript values *)

Undefined == [t |-> "undefined"]
Str(s) == [t |-> "string", s |-> s]
Bool(b) == [t |-> "boolean", b |-> b]
List(l) == [t |-> "array", l |-> l]
\* a string holding a filesystem path, kept parsed
Path(abs, segs) == [t |-> "path", abs |-> abs, segs |-> segs]

\* x == null || x === undefined
Nullish(v) == v.t = "undefined"

\* ToBoolean(v)
Truthy(v) ==
    CASE v.t = "undefined" -> FALSE
      [] v.t = "boolean" -> v.b
      [] v.t = "string" -> v.s # ""
      [] v.t = "path" -> v.abs \/ v.segs # <<>>
      [] OTHER -> TRUE

\* a || b
Or(a, b) == IF Truthy(a) THEN a ELSE b

\* mutant of Coalesce: a || b, every falsy value gives way to the default
Coalesce_falsy(a, b) == IF Truthy(a) THEN a ELSE b

\* a ?? b
Coalesce(a, b) == IF Nullish(a) THEN b ELSE a

----------------------------------------------------------------------------
(* Paths (node:path) and the filesystem (node:fs) *)

\* process.cwd()
Cwd == <<"proj">>

\* path.resolve(...paths): later absolute arguments discard what precedes them;
\* the result is absolute (relative to the working directory if need be)
RECURSIVE ResolveFrom(_, _)
ResolveFrom(acc, paths) ==
    IF paths = <<>> THEN acc
    ELSE LET p == Head(paths)
         IN ResolveFrom(IF p.abs THEN p.segs ELSE acc \o p.segs, Tail(paths))

PathResolve(paths) == ResolveFrom(Cwd, paths)

\* path.dirname(p) of an absolute path
Dirname(p) == IF p = <<>> THEN <<>> ELSE SubSeq(p, 1, Len(p) - 1)

\* the path and all its ancestors
Prefixes(p) == { SubSeq(p, 1, n) : n \in 0..Len(p) }

\* fs.existsSync(p)
existsSync(dirs, files, p) == p \in dirs \/ p \in DOMAIN files

\* fs.mkdirSync(p, { recursive: true }): creates the missing ancestors too and
\* accepts an existing directory; a file in the way is an error
mkdirSyncRecursive(dirs, files, p) ==
    IF \E q \in Prefixes(p) : q \in DOMAIN files
    THEN [err |-> "ENOTDIR", dirs |-> dirs]
    ELSE [err |-> "none", dirs |-> dirs \cup Prefixes(p)]

\* fs.writeFileSync(p, data)
writeFileSync(dirs, files, p, data) ==
    IF Dirname(p) \notin dirs THEN [err |-> "ENOENT", files |-> files]
    ELSE IF p \in dirs THEN [err |-> "EISDIR", files |-> files]
    ELSE [err |-> "none",
          files |-> [q \in DOMAIN files \cup {p} |-> IF q = p THEN data ELSE files[q]]]

\* mutant of rmSyncForce: without `force` a missing path is an error
rmSyncForce_strict(dirs, files, p) ==
    IF p \in dirs THEN [err |-> "EISDIR", files |-> files]
    ELSE IF p \notin DOMAIN files THEN [err |-> "ENOENT", files |-> files]
    ELSE [err |-> "none", files |-> [q \in DOMAIN files \ {p} |-> files[q]]]

\* fs.rmSync(p, { force: true }): a missing path is ignored
rmSyncForce(dirs, files, p) ==
    IF p \in dirs THEN [err |-> "EISDIR", files |-> files]
    ELSE [err |-> "none", files |-> [q \in DOMAIN files \ {p} |-> files[q]]]

\* JSON.stringify({ devServer: url }, null, '\t')
JsonStringify(url) == "{\n\t\"devServer\": \"" \o url \o "\"\n}"

\* `${v}` in a template literal
TemplateStr(v) ==
    CASE v.t = "string" -> v.s
      [] v.t = "boolean" -> (IF v.b THEN "true" ELSE "false")
      [] OTHER -> "undefined"

----------------------------------------------------------------------------
(* Dev-Server Coordinator: writeJson and generateInfoFile's three callbacks *)

\* mutant of writeJson: the directory is created only one level deep
writeJson_shallowMkdir(dirs, files, filePath, data) ==
    LET dir == Dirname(filePath)
        dirExisted == existsSync(dirs, files, dir)
        made == IF dirExisted THEN [err |-> "none", dirs |-> dirs]
                ELSE IF Dirname(dir) \in dirs
                     THEN [err |-> "none", dirs |-> dirs \cup {dir}]
                     ELSE [err |-> "ENOENT", dirs |-> dirs]
        wrote == writeFileSync(made.dirs, files, filePath, data)
    IN  IF made.err # "none"
        THEN [err |-> made.err, dirs |-> dirs, files |-> files, dirExisted |-> dirExisted]
        ELSE [err |-> wrote.err, dirs |-> made.dirs, files |-> wrote.files,
              dirExisted |-> dirExisted]

\* writeJson(filePath, data): make sure the directory exists, then write the file
writeJson(dirs, files, filePath, data) ==
    LET dir == Dirname(filePath)
        dirExisted == existsSync(dirs, files, dir)
        made == IF dirExisted THEN [err |-> "none", dirs |-> dirs]
                ELSE mkdirSyncRecursive(dirs, files, dir)
        wrote == writeFileSync(made.dirs, files, filePath, data)
    IN  IF made.err # "none"
        THEN [err |-> made.err, dirs |-> dirs, files |-> files, dirExisted |-> dirExisted]
        ELSE [err |-> wrote.err, dirs |-> made.dirs, files |-> wrote.files,
              dirExisted |-> dirExisted]

\* generateInfoFile: path.resolve(root, build.outDir, pluginConfig.infoFile)
infoFilePathOf(rc, pc) == PathResolve(<<rc.root, rc.outDir, pc.infoFile>>)

\* mutant of advertisedHost: the bundler's host is preferred to the plugin's
advertisedHost_serverFirst(pluginHost, serverHost) ==
    LET host == Or(Or(serverHost, pluginHost), Str("localhost"))
    IN  IF host = Bool(TRUE) \/ host = Str("0.0.0.0") THEN Str("localhost") ELSE host

\* mutant of advertisedHost: the all-interfaces host is advertised as it is
advertisedHost_noNormalize(pluginHost, serverHost) ==
    Or(Or(pluginHost, serverHost), Str("localhost"))

\* the host both the 'listening' callback and config() compute:
\*   let host = pluginConfig.host || <server>.host || 'localhost';
\*   if (host === true || host === '0.0.0.0') host = 'localhost';
advertisedHost(pluginHost, serverHost) ==
    LET host == Or(Or(pluginHost, serverHost), Str("localhost"))
    IN  IF host = Bool(TRUE) \/ host = Str("0.0.0.0") THEN Str("localhost") ELSE host

\* <server>.https ? 'https' : 'http'
protocolOf(https) == IF Truthy(https) THEN "https" ELSE "http"

\* mutant of devServerUrl: the port is always appended
devServerUrl_alwaysPort(protocol, host, port) ==
    protocol \o "://" \o TemplateStr(host) \o ":" \o ToString(port)

\* port === 80 ? `${protocol}://${host}` : `${protocol}://${host}:${port}`
devServerUrl(protocol, host, port) ==
    IF port = 80
    THEN protocol \o "://" \o TemplateStr(host)
    ELSE protocol \o "://" \o TemplateStr(host) \o ":" \o ToString(port)

\* mutant of originAfterWrite: server.origin is not updated
originAfterWrite_stale(origin, url) == origin

\* resolvedConfig.server.origin = devServerUrl
originAfterWrite(origin, url) == url

\* mutant of onListening: server.origin is assigned before the artifact is
\* written
onListening_originFirst(m, rc, pc, infoFilePath, port) ==
    LET protocol == protocolOf(rc.https)
        host == advertisedHost(pc.host, rc.host)
        url == devServerUrl(protocol, host, port)
        w == writeJson(m.dirs, m.files, infoFilePath, JsonStringify(url))
        seen == [path |-> infoFilePath, dirExisted |-> w.dirExisted,
                 created |-> w.dirs \ m.dirs, err |-> w.err]
    IN  IF w.err # "none"
        THEN [m EXCEPT !.dirs = w.dirs, !.lastWrite = seen,
                       !.origin = originAfterWrite(m.origin, url),
                       !.proc = "crashed", !.exitCode = 1]
        ELSE [m EXCEPT !.dirs = w.dirs, !.files = w.files, !.lastWrite = seen,
                       !.origin = originAfterWrite(m.origin, url)]

\* mutant of onListening: the URL is computed at the first 'listening' event
\* and used again at the later ones
onListening_keepUrl(m, rc, pc, infoFilePath, port) ==
    LET protocol == protocolOf(rc.https)
        host == advertisedHost(pc.host, rc.host)
        url == IF m.origin # "" THEN m.origin ELSE devServerUrl(protocol, host, port)
        w == writeJson(m.dirs, m.files, infoFilePath, JsonStringify(url))
        seen == [path |-> infoFilePath, dirExisted |-> w.dirExisted,
                 created |-> w.dirs \ m.dirs, err |-> w.err]
    IN  IF w.err # "none"
        THEN [m EXCEPT !.dirs = w.dirs, !.lastWrite = seen,
                       !.proc = "crashed", !.exitCode = 1]
        ELSE [m EXCEPT !.dirs = w.dirs, !.files = w.files, !.lastWrite = seen,
                       !.origin = originAfterWrite(m.origin, url)]

\* The httpServer.on('listening') callback of the Coordinator whose artifact
\* path is infoFilePath.  m carries the state the callbacks read and write; an
\* exception thrown by writeJson is not caught, and ends the process.
onListening(m, rc, pc, infoFilePath, port) ==
    LET protocol == protocolOf(rc.https)
        host == advertisedHost(pc.host, rc.host)
        url == devServerUrl(protocol, host, port)
        w == writeJson(m.dirs, m.files, infoFilePath, JsonStringify(url))
        seen == [path |-> infoFilePath, dirExisted |-> w.dirExisted,
                 created |-> w.dirs \ m.dirs, err |-> w.err]
    IN  IF w.err # "none"
        THEN [m EXCEPT !.dirs = w.dirs, !.lastWrite = seen,
                       !.proc = "crashed", !.exitCode = 1]
        ELSE [m EXCEPT !.dirs = w.dirs, !.files = w.files, !.lastWrite = seen,
                       !.origin = originAfterWrite(m.origin, url)]

\* mutant of onClose: the advertised origin is withdrawn with the file
onClose_resetOrigin(m, infoFilePath) ==
    LET r == rmSyncForce(m.dirs, m.files, infoFilePath)
    IN  IF r.err # "none"
        THEN [m EXCEPT !.proc = "crashed", !.exitCode = 1]
        ELSE [m EXCEPT !.files = r.files, !.origin = ""]

\* mutant of onClose: the artifact is left in place
onClose_keepFile(m, infoFilePath) == m

\* The httpServer.on('close') callback: fs.rmSync(infoFilePath, { force: true })
onClose(m, infoFilePath) ==
    LET r == rmSyncForce(m.dirs, m.files, infoFilePath)
    IN  IF r.err # "none"
        THEN [m EXCEPT !.proc = "crashed", !.exitCode = 1]
        ELSE [m EXCEPT !.files = r.files]

\* The callback given to httpServer.close(): () => process.exit(0)
onClosed(m) == [m EXCEPT !.proc = "exited", !.exitCode = 0]

\* One listener of an emitted event
runHandler(h, m, rc, pc, port) ==
    CASE h.kind = "listening" -> onListening(m, rc, pc, h.path, port)
      [] h.kind = "close" -> onClose(m, h.path)
      [] h.kind = "closed" -> onClosed(m)

\* EventEmitter.emit: the listeners run synchronously in registration order;
\* nothing runs after the process has ended
RECURSIVE emit(_, _, _, _, _)
emit(hs, m, rc, pc, port) ==
    IF hs = <<>> \/ m.proc # "running" THEN m
    ELSE emit(Tail(hs), runHandler(Head(hs), m, rc, pc, port), rc, pc, port)

\* mutant of closeListenersAfterClose: the exit callback runs before the
\* listeners subscribed earlier
closeListenersAfterClose_exitFirst(hs, srv) == <<[kind |-> "closed", srv |-> srv]>> \o hs

\* httpServer.close(cb): cb is subscribed (once) to 'close', after the listeners
\* that are already there
closeListenersAfterClose(hs, srv) == hs \o <<[kind |-> "closed", srv |-> srv]>>

----------------------------------------------------------------------------
(* Configuration Resolver: getDefaultOutDir and the config() hook *)

\* getDefaultOutDir(): <cwd>/www/assets, provided <cwd>/www exists
getDefaultOutDir(dirs, files) ==
    LET wwwDirectory == Cwd \o <<"www">>
        assetsDirectory == wwwDirectory \o <<"assets">>
    IN  IF ~existsSync(dirs, files, wwwDirectory)
        THEN [threw |-> TRUE, probes |-> {wwwDirectory},
              error |-> [name |-> "Error", path |-> assetsDirectory,
                         advice |-> "build.outDir"]]
        ELSE [threw |-> FALSE, probes |-> {wwwDirectory},
              value |-> Path(TRUE, assetsDirectory)]

\* mutant of outDirOf: the default directory is checked even when the user
\* gave build.outDir
outDirOf_alwaysCheck(uc, dirs, files) ==
    LET d == getDefaultOutDir(dirs, files)
    IN  IF d.threw THEN d
        ELSE [threw |-> FALSE, probes |-> d.probes, value |-> Coalesce(uc.outDir, d.value)]

\* userConfig.build?.outDir ?? getDefaultOutDir()
outDirOf(uc, dirs, files) ==
    IF Nullish(uc.outDir) THEN getDefaultOutDir(dirs, files)
    ELSE [threw |-> FALSE, probes |-> {}, value |-> uc.outDir]

\* vite's defaultAllowedOrigins (a regular expression)
defaultAllowedOrigins == [t |-> "regexp", name |-> "defaultAllowedOrigins"]

\* mutant of corsOf: only the project's own origin is listed
corsOf_noDefaults(uc, protocol, host) ==
    Coalesce(uc.cors,
             [t |-> "object", origin |-> <<Str(protocol \o "://" \o TemplateStr(host))>>])

\* userConfig.server?.cors ?? { origin: [defaultAllowedOrigins, `${protocol}://${host}`] }
corsOf(uc, protocol, host) ==
    Coalesce(uc.cors,
             [t |-> "object",
              origin |-> <<defaultAllowedOrigins,
                           Str(protocol \o "://" \o TemplateStr(host))>>])

\* userConfig.server?.allowedHosts ?? host === 'localhost' ? undefined : [host]
\* `??` binds tighter than `?:`, so this is
\*   (allowedHosts ?? (host === 'localhost')) ? undefined : [host]
allowedHostsOf(uc, host) ==
    IF Truthy(Coalesce(uc.allowedHosts, Bool(host = Str("localhost"))))
    THEN Undefined
    ELSE List(<<host>>)

\* mutant of entryOf: the entries are resolved without the root directory
entryOf_noRoot(pc, root) ==
    IF Truthy(pc.entry)
    THEN LET list == IF pc.entry.t = "array" THEN pc.entry.l ELSE <<pc.entry>>
         IN  List([i \in 1..Len(list) |-> Path(TRUE, PathResolve(<<list[i]>>))])
    ELSE Undefined

\* (Array.isArray(entry) ? entry : [entry]).map((entry) => path.resolve(root, entry))
entryOf(pc, root) ==
    IF Truthy(pc.entry)
    THEN LET list == IF pc.entry.t = "array" THEN pc.entry.l ELSE <<pc.entry>>
         IN  List([i \in 1..Len(list) |-> Path(TRUE, PathResolve(<<root, list[i]>>))])
    ELSE Undefined

\* The config(userConfig) hook: the configuration it returns, or the error it
\* throws, and the paths it looked up
config(uc, pc, dirs, files) ==
    LET root == Coalesce(uc.root, Path(FALSE, <<"assets">>))
        protocol == protocolOf(uc.https)
        host == advertisedHost(pc.host, uc.host)
        entry == entryOf(pc, root)
        outDir == outDirOf(uc, dirs, files)
    IN  IF outDir.threw
        THEN [threw |-> TRUE, probes |-> outDir.probes, error |-> outDir.error]
        ELSE [threw |-> FALSE, probes |-> outDir.probes,
              value |-> [root |-> root,
                         base |-> Coalesce(uc.base, Str("")),
                         manifest |-> Coalesce(uc.manifest, Bool(TRUE)),
                         outDir |-> outDir.value,
                         assetsDir |-> Coalesce(uc.assetsDir, Str("")),
                         input |-> entry,
                         cors |-> corsOf(uc, protocol, host),
                         allowedHosts |-> allowedHostsOf(uc, host),
                         origin |-> ""]]

----------------------------------------------------------------------------
(* Inputs *)

\* ports the listener may be bound to
Ports == {80, 3000, 5173}

\* the options given to vitePluginNette()
PluginOptions ==
    [infoFile : {Undefined, Path(FALSE, <<"a", "b", "c", "info.json">>)},
     host : {Undefined, Str("192.168.1.200"), Str("0.0.0.0"), Str("localhost")},
     entry : {Undefined, Path(FALSE, <<"main.js">>),
              List(<<Path(TRUE, <<"abs", "app.js">>), Path(FALSE, <<"main.js">>)>>)}]

\* the options the Coordinator reads (entry only feeds the Resolver)
CoordinatorOptions == { o \in PluginOptions : o.entry = Undefined }

\* the options the Resolver reads (infoFile only feeds the Coordinator)
ResolverOptions == { o \in PluginOptions : o.infoFile = Undefined }

\* a server.cors setting of the user's own
UserCors == [t |-> "object", origin |-> <<Str("https://other.test")>>]

\* the user's Vite configuration, as the config() hook receives it
UserConfigs ==
    [root : {Undefined, Path(FALSE, <<"client">>)},
     base : {Undefined, Str("/app/")},
     manifest : {Undefined, Bool(FALSE)},
     outDir : {Undefined, Path(FALSE, <<"dist">>)},
     assetsDir : {Undefined, Str("static")},
     https : {Undefined, Bool(TRUE)},
     host : {Undefined, Bool(TRUE), Str("0.0.0.0"), Str("example.com")},
     cors : {Undefined, UserCors},
     allowedHosts : {Undefined, List(<<Str("foo.test")>>)}]

\* the user configurations that differ in what reaches the Coordinator (root,
\* build.outDir, server.https, server.host) or the CORS origin
ServeConfigs ==
    [root : {Undefined, Path(FALSE, <<"client">>)},
     base : {Undefined},
     manifest : {Undefined},
     outDir : {Undefined, Path(FALSE, <<"dist">>)},
     assetsDir : {Undefined},
     https : {Undefined, Bool(TRUE)},
     host : {Undefined, Bool(TRUE), Str("0.0.0.0"), Str("example.com")},
     cors : {Undefined, UserCors},
     allowedHosts : {Undefined}]

\* the project directory before the bundler starts
InitialDirs ==
    LET base == {<<>>, Cwd}
        www == Cwd \o <<"www">>
    IN  {base, base \cup {www}, base \cup {www, www \o <<"assets">>}}

\* the latest EventWindow events, with `e` the newest
Remember(events, e) ==
    LET all == Append(events, e)
    IN  IF Len(all) > EventWindow THEN Tail(all) ELSE all

\* the most recent listener lifecycle event
lastEvent == IF recent = <<>> THEN "none" ELSE recent[Len(recent)]

NoWrite == [path |-> <<>>, dirExisted |-> FALSE, created |-> {}, err |-> "none"]

----------------------------------------------------------------------------
(* Initial state and actions *)

Init ==
    /\ phase = "init"
    /\ pluginConfig = Undefined
    /\ ownOptions = Undefined
    /\ resolvedConfig = Undefined
    /\ userConfig = Undefined
    /\ configResult = Undefined
    /\ probed = {}
    /\ hasHttpServer = FALSE
    /\ fsDirs \in InitialDirs
    /\ fsFiles = <<>>
    /\ listeningHandlers = <<>>
    /\ closeHandlers = <<>>
    /\ sigintHandlers = <<>>
    /\ recent = <<>>
    /\ everListened = FALSE
    /\ lastPort = 0
    /\ prevPort = 0
    /\ lastWrite = NoWrite
    /\ closeRequested = FALSE
    /\ sigints = 0
    /\ proc = "running"
    /\ exitCode = 0

\* pluginConfig = { infoFile: config.infoFile ?? '.vite/nette.json', host, entry }
pluginConfigOf(cfg) ==
    [infoFile |-> Coalesce(cfg.infoFile, Path(FALSE, <<".vite", "nette.json">>)),
     host |-> cfg.host,
     entry |-> cfg.entry]

\* vitePluginNette(config): the plugin options are stored module-wide
vitePluginNette(cfg) ==
    /\ proc = "running"
    /\ phase = "init"
    /\ pluginConfig' = pluginConfigOf(cfg)
    /\ ownOptions' = pluginConfigOf(cfg)
    /\ phase' = "constructed"
    /\ UNCHANGED << resolvedConfig, userConfig, configResult, probed, hasHttpServer,
                    fsDirs, fsFiles, listeningHandlers, closeHandlers, sigintHandlers,
                    recent, everListened, lastPort, prevPort, lastWrite,
                    closeRequested, sigints, proc, exitCode >>

\* vitePluginNette(config) called once more in the same process, for another
\* plugin instance: the module-wide plugin options are assigned again
vitePluginNetteAgain(cfg) ==
    /\ proc = "running"
    /\ phase # "init"
    /\ pluginConfig' = pluginConfigOf(cfg)
    /\ UNCHANGED << phase, ownOptions, resolvedConfig, userConfig, configResult, probed,
                    hasHttpServer, fsDirs, fsFiles, listeningHandlers, closeHandlers,
                    sigintHandlers, recent, everListened, lastPort, prevPort,
                    lastWrite, closeRequested, sigints, proc, exitCode >>

\* Vite calls the config() hook with the user's configuration; an exception
\* aborts the start-up
ConfigHook(uc) ==
    /\ proc = "running"
    /\ phase = "constructed"
    /\ LET r == config(uc, pluginConfig, fsDirs, fsFiles)
       IN  /\ userConfig' = uc
           /\ configResult' = r
           /\ probed' = probed \cup r.probes
           /\ phase' = IF r.threw THEN "configFailed" ELSE "configured"
           /\ proc' = IF r.threw THEN "crashed" ELSE proc
           /\ exitCode' = IF r.threw THEN 1 ELSE exitCode
    /\ UNCHANGED << pluginConfig, ownOptions, resolvedConfig, hasHttpServer, fsDirs,
                    fsFiles, listeningHandlers, closeHandlers, sigintHandlers, recent,
                    everListened, lastPort, prevPort, lastWrite, closeRequested,
                    sigints >>

\* Vite merges the hook's result into the user's configuration and hands the
\* resolved configuration to configResolved(config), which stores it
\* module-wide; the hook's argument and result are then gone
configResolved(command) ==
    /\ proc = "running"
    /\ phase = "configured"
    /\ resolvedConfig' =
          [command |-> command,
           root |-> Path(TRUE, PathResolve(<<configResult.value.root>>)),
           outDir |-> configResult.value.outDir,
           https |-> userConfig.https,
           host |-> userConfig.host,
           origin |-> configResult.value.origin]
    /\ userConfig' = Undefined
    /\ configResult' = Undefined
    /\ phase' = "resolved"
    /\ UNCHANGED << pluginConfig, ownOptions, probed, hasHttpServer, fsDirs, fsFiles,
                    listeningHandlers, closeHandlers, sigintHandlers, recent,
                    everListened, lastPort, prevPort, lastWrite, closeRequested,
                    sigints, proc, exitCode >>

\* mutant of sigintListenersAfterAttach: SIGINT is subscribed only once per
\* process
sigintListenersAfterAttach_once(hs, srv) ==
    IF hs = <<>> THEN Append(hs, [kind |-> "sigint", srv |-> srv]) ELSE hs

\* process.on('SIGINT', () => httpServer.close(...)): one more listener, which
\* holds the httpServer it was given
sigintListenersAfterAttach(hs, srv) == Append(hs, [kind |-> "sigint", srv |-> srv])

\* generateInfoFile(httpServer), for the listener `srv`: the artifact path is
\* fixed, and the 'listening', 'close' and SIGINT callbacks are subscribed
generateInfoFile(srv) ==
    LET infoFilePath == infoFilePathOf(resolvedConfig, pluginConfig)
    IN  /\ listeningHandlers' =
              Append(listeningHandlers,
                     [kind |-> "listening", srv |-> srv, path |-> infoFilePath])
        /\ closeHandlers' =
              Append(closeHandlers, [kind |-> "close", srv |-> srv, path |-> infoFilePath])
        /\ sigintHandlers' = sigintListenersAfterAttach(sigintHandlers, srv)

\* mutant of shouldAttach: the command is not looked at
shouldAttach_anyCommand(rc, httpServer) == httpServer

\* resolvedConfig.command === 'serve' && devServer.httpServer
shouldAttach(rc, httpServer) == rc.command = "serve" /\ httpServer

\* configureServer(devServer): with the 'serve' command and an HTTP server,
\* generateInfoFile(httpServer) attaches a Coordinator to the listener
configureServer(httpServer) ==
    /\ proc = "running"
    /\ phase = "resolved"
    /\ hasHttpServer' = httpServer
    /\ phase' = "serving"
    /\ IF shouldAttach(resolvedConfig, httpServer)
       THEN generateInfoFile(1)
       ELSE UNCHANGED << listeningHandlers, closeHandlers, sigintHandlers >>
    /\ UNCHANGED << pluginConfig, ownOptions, resolvedConfig, userConfig, configResult,
                    probed, fsDirs, fsFiles, recent, everListened, lastPort, prevPort,
                    lastWrite, closeRequested, sigints, proc, exitCode >>

\* the number of Coordinators attached so far
Attachments == Len(listeningHandlers)

\* configureServer(devServer) called again in the same process, with the
\* HTTP server of a restarted dev server: one more Coordinator is attached, to
\* the new listener
configureServerAgain ==
    /\ proc = "running"
    /\ phase = "serving"
    /\ hasHttpServer
    /\ shouldAttach(resolvedConfig, TRUE)
    /\ Attachments >= 1
    /\ Attachments < MaxAttach
    /\ generateInfoFile(Attachments + 1)
    /\ UNCHANGED << phase, pluginConfig, ownOptions, resolvedConfig, userConfig,
                    configResult, probed, hasHttpServer, fsDirs, fsFiles, recent,
                    everListened, lastPort, prevPort, lastWrite, closeRequested,
                    sigints, proc, exitCode >>

\* the state the listeners of an event read and write
Machine ==
    [dirs |-> fsDirs, files |-> fsFiles, origin |-> resolvedConfig.origin,
     proc |-> proc, exitCode |-> exitCode, lastWrite |-> lastWrite]

\* the listeners subscribed on the httpServer `srv`
ListenersOf(hs, srv) == SelectSeq(hs, LAMBDA h : h.srv = srv)

\* The listener `srv` is bound to `port` and emits 'listening'
EmitListeningOn(srv, port) ==
    /\ proc = "running"
    /\ phase = "serving"
    /\ hasHttpServer
    /\ LET m == emit(ListenersOf(listeningHandlers, srv), Machine, resolvedConfig,
                     pluginConfig, port)
       IN  /\ fsDirs' = m.dirs
           /\ fsFiles' = m.files
           /\ resolvedConfig' = [resolvedConfig EXCEPT !.origin = m.origin]
           /\ lastWrite' = m.lastWrite
           /\ proc' = m.proc
           /\ exitCode' = m.exitCode
    /\ IF srv = 1
       THEN /\ recent' = Remember(recent, "listening")
            /\ everListened' = TRUE
            /\ lastPort' = port
       ELSE UNCHANGED << recent, everListened, lastPort >>
    /\ UNCHANGED << phase, pluginConfig, ownOptions, userConfig, configResult, probed,
                    hasHttpServer, listeningHandlers, closeHandlers, sigintHandlers,
                    prevPort, closeRequested, sigints >>

\* The dev server's listener is bound to `port` and emits 'listening'
EmitListening(port) == EmitListeningOn(1, port)

\* The listener `srv` emits 'close'; the callbacks given to its
\* httpServer.close() were subscribed once and are dropped
EmitCloseOn(srv) ==
    /\ proc = "running"
    /\ phase = "serving"
    /\ hasHttpServer
    /\ LET m == emit(ListenersOf(closeHandlers, srv), Machine, resolvedConfig,
                     pluginConfig, lastPort)
       IN  /\ fsDirs' = m.dirs
           /\ fsFiles' = m.files
           /\ resolvedConfig' = [resolvedConfig EXCEPT !.origin = m.origin]
           /\ lastWrite' = m.lastWrite
           /\ proc' = m.proc
           /\ exitCode' = m.exitCode
    /\ closeHandlers' =
          SelectSeq(closeHandlers, LAMBDA h : ~(h.kind = "closed" /\ h.srv = srv))
    /\ IF srv = 1
       THEN /\ closeRequested' = FALSE
            /\ recent' = Remember(recent, "close")
            /\ prevPort' = lastPort
       ELSE UNCHANGED << closeRequested, recent, prevPort >>
    /\ UNCHANGED << phase, pluginConfig, ownOptions, userConfig, configResult, probed,
                    hasHttpServer, listeningHandlers, sigintHandlers, everListened,
                    lastPort, sigints >>

\* The dev server's listener emits 'close'
EmitClose == EmitCloseOn(1)

\* every SIGINT listener calls httpServer.close(() => process.exit(0)) on the
\* httpServer it holds
RECURSIVE closeByEach(_, _)
closeByEach(sigs, hs) ==
    IF sigs = <<>> THEN hs
    ELSE closeByEach(Tail(sigs), closeListenersAfterClose(hs, Head(sigs).srv))

\* The process receives SIGINT while a Coordinator is attached
Sigint ==
    /\ proc = "running"
    /\ sigintHandlers # <<>>
    /\ sigints < MaxSigint
    /\ sigints' = sigints + 1
    /\ closeHandlers' = closeByEach(sigintHandlers, closeHandlers)
    /\ closeRequested' = TRUE
    /\ UNCHANGED << phase, pluginConfig, ownOptions, resolvedConfig, userConfig,
                    configResult, probed, hasHttpServer, fsDirs, fsFiles,
                    listeningHandlers, sigintHandlers, recent, everListened, lastPort,
                    prevPort, lastWrite, proc, exitCode >>

\* The dev-server session: one plugin, one pass through Vite's hooks, then
\* the listener's events and interrupts in any order
Next ==
    \/ \E cfg \in CoordinatorOptions : vitePluginNette(cfg)
    \/ \E uc \in ServeConfigs : ConfigHook(uc)
    \/ \E command \in {"serve", "build"} : configResolved(command)
    \/ \E httpServer \in BOOLEAN : configureServer(httpServer)
    \/ \E port \in Ports : EmitListening(port)
    \/ EmitClose
    \/ Sigint

Spec == Init /\ [][Next]_vars

\* The Configuration Resolver alone, over every user configuration
NextResolver ==
    \/ \E cfg \in ResolverOptions : vitePluginNette(cfg)
    \/ \E uc \in UserConfigs : ConfigHook(uc)

SpecResolver == Init /\ [][NextResolver]_vars

\* the plugin options of a process that constructs the plugin more than once
MultiOptions ==
    { o \in CoordinatorOptions : o.host \in {Undefined, Str("192.168.1.200")} }

\* the user configuration of that process
MultiConfigs ==
    { uc \in ServeConfigs : /\ uc.root = Undefined
                            /\ uc.outDir = Path(FALSE, <<"dist">>)
                            /\ uc.https = Undefined
                            /\ uc.host \in {Undefined, Str("example.com")}
                            /\ uc.cors = Undefined }

\* A dev-server session in whose process vitePluginNette() is called again,
\* at any moment, for another plugin instance
NextPlugins ==
    \/ \E cfg \in MultiOptions : vitePluginNette(cfg)
    \/ \E cfg \in MultiOptions : vitePluginNetteAgain(cfg)
    \/ \E uc \in MultiConfigs : ConfigHook(uc)
    \/ configResolved("serve")
    \/ configureServer(TRUE)
    \/ \E port \in Ports : EmitListening(port)
    \/ EmitClose
    \/ Sigint

SpecPlugins == Init /\ [][NextPlugins]_vars

\* the ports the listeners of a restarted dev server are bound to
RestartPorts == {80, 5173}

\* the plugin options and the user configuration of that process
RestartOptions == { o \in MultiOptions : o.infoFile = Undefined /\ o.host = Undefined }
RestartConfigs == { uc \in MultiConfigs : uc.host = Undefined }

\* A process in which the dev server is restarted: configureServer() is
\* called again with a new listener, and the listeners emit their events in
\* any order
NextRestart ==
    \/ \E cfg \in RestartOptions : vitePluginNette(cfg)
    \/ \E uc \in RestartConfigs : ConfigHook(uc)
    \/ configResolved("serve")
    \/ configureServer(TRUE)
    \/ configureServerAgain
    \/ \E srv \in 1..MaxAttach, port \in RestartPorts :
          srv <= Attachments /\ EmitListeningOn(srv, port)
    \/ \E srv \in 1..MaxAttach : srv <= Attachments /\ EmitCloseOn(srv)
    \/ Sigint

SpecRestart == Init /\ [][NextRestart]_vars

\* Something outside the plugin puts a file where the Coordinator needs a
\* directory, or a directory where it writes its file, so that the next
\* mkdirSync or writeFileSync fails
Obstruct(q, asDir) ==
    /\ proc = "running"
    /\ phase = "serving"
    /\ listeningHandlers # <<>>
    /\ q \in Prefixes(Head(listeningHandlers).path)
    /\ q # <<>>
    /\ ~existsSync(fsDirs, fsFiles, q)
    /\ Dirname(q) \in fsDirs
    /\ asDir <=> q = Head(listeningHandlers).path
    /\ IF asDir
       THEN fsDirs' = fsDirs \cup {q} /\ fsFiles' = fsFiles
       ELSE /\ fsDirs' = fsDirs
            /\ fsFiles' = [p \in DOMAIN fsFiles \cup {q} |->
                              IF p = q THEN "" ELSE fsFiles[p]]
    /\ UNCHANGED << phase, pluginConfig, ownOptions, resolvedConfig, userConfig,
                    configResult, probed, hasHttpServer, listeningHandlers,
                    closeHandlers, sigintHandlers, recent, everListened, lastPort,
                    prevPort, lastWrite, closeRequested, sigints, proc, exitCode >>

\* the ports, plugin options and user configuration of a session whose output
\* location is tampered with
FaultPorts == {3000, 5173}
FaultOptions == { o \in MultiOptions : o.host = Undefined }
FaultConfigs == { uc \in MultiConfigs : uc.host = Undefined }

\* the artifact paths of that session and the directories above them
FaultPaths ==
    UNION { Prefixes(Cwd \o <<"assets", "dist">> \o o.infoFile.segs) :
               o \in { pluginConfigOf(cfg) : cfg \in FaultOptions } }

\* A dev-server session during which the output location can become
\* unwritable
NextFault ==
    \/ \E cfg \in FaultOptions : vitePluginNette(cfg)
    \/ \E uc \in FaultConfigs : ConfigHook(uc)
    \/ configResolved("serve")
    \/ configureServer(TRUE)
    \/ \E q \in FaultPaths, asDir \in BOOLEAN : Obstruct(q, asDir)
    \/ \E port \in FaultPorts : EmitListening(port)
    \/ EmitClose

SpecFault == Init /\ [][NextFault]_vars

----------------------------------------------------------------------------
(* Vocabulary of the properties *)

\* a Coordinator is attached to the listener
Attached == listeningHandlers # <<>>

\* the artifact path the attached Coordinator fixed
ArtifactPath == Head(listeningHandlers).path

ArtifactExists == ArtifactPath \in DOMAIN fsFiles

\* every text a host can take in a URL, normalised or not
HostTexts == {"localhost", "192.168.1.200", "example.com", "0.0.0.0", "true"}

\* '<protocol>://<host>' without a port, '<protocol>://<host>:<port>' with one
UrlWithoutPort(protocol, h) == protocol \o "://" \o h
UrlWithPort(protocol, h, port) == protocol \o "://" \o h \o ":" \o ToString(port)

AllUrls ==
    { UrlWithoutPort(p, h) : p \in {"http", "https"}, h \in HostTexts }
    \cup { UrlWithPort(p, h, n) : p \in {"http", "https"}, h \in HostTexts, n \in Ports }

\* JSON.parse(content).devServer: the URL whose document the content is
DevServerOf(content) ==
    IF \E u \in AllUrls : JsonStringify(u) = content
    THEN CHOOSE u \in AllUrls : JsonStringify(u) = content
    ELSE "unparsed"

\* the devServer value of the artifact, when the file exists
ArtifactDevServer == IF ArtifactExists THEN DevServerOf(fsFiles[ArtifactPath]) ELSE "no file"

\* the protocol the resolved configuration's TLS flag stands for
ResolvedProtocol == IF resolvedConfig.https = Undefined THEN "http" ELSE "https"

----------------------------------------------------------------------------
(* C1 *)

\* C1: with one Coordinator attached, after any sequence of listening and
\* close events the artifact file exists exactly when the listener is Active,
\* that is when its most recent lifecycle event is "listening".
C1_ArtifactIffActive ==
    Attached => (ArtifactExists <=> lastEvent = "listening")

\* a second listen/close cycle is under way: listening, close, listening
C1_Witness ==
    /\ Attached
    /\ recent = <<"listening", "close", "listening">>
    /\ ArtifactExists

----------------------------------------------------------------------------
(* C2 *)

\* C2 as stated: in every state after the first listening event, states after
\* a close or an interrupt included, server.origin equals the devServer value
\* of the artifact file.
C2_OriginEqualsArtifactAlways ==
    (Attached /\ everListened) => ArtifactDevServer = resolvedConfig.origin

\* C2 (amended): in every state after the first listening event in which the
\* artifact file exists, server.origin equals the artifact's devServer value;
\* once a close has removed the file, server.origin still holds the URL of the
\* last listening event.
C2_OriginEqualsArtifactWhileActive ==
    (Attached /\ everListened) =>
        /\ ArtifactExists => ArtifactDevServer = resolvedConfig.origin
        /\ ~ArtifactExists =>
              \E h \in HostTexts :
                  resolvedConfig.origin =
                      IF lastPort = 80 THEN UrlWithoutPort(ResolvedProtocol, h)
                      ELSE UrlWithPort(ResolvedProtocol, h, lastPort)

\* the listener is Active again on port 80 after an earlier close
C2_Witness ==
    /\ Attached
    /\ recent = <<"listening", "close", "listening">>
    /\ lastPort = 80
    /\ ArtifactExists
    /\ resolvedConfig.origin = ArtifactDevServer

----------------------------------------------------------------------------
(* C3 *)

----------------------------------------------------------------------------
(* C4 *)

\* the all-interfaces sentinel: boolean true or the string '0.0.0.0'
IsSentinel(v) == v = Bool(TRUE) \/ v = Str("0.0.0.0")

\* the first of the plugin's host override, the server host and 'localhost'
\* that is set
EffectiveHost(pluginHost, serverHost) ==
    IF pluginHost # Undefined THEN pluginHost
    ELSE IF serverHost # Undefined THEN serverHost
    ELSE Str("localhost")

\* the URL of `port` on `h`, by the rule of C3
UrlOn(protocol, h, port) ==
    IF port = 80 THEN UrlWithoutPort(protocol, h) ELSE UrlWithPort(protocol, h, port)

\* URLs and origins whose host is the sentinel
SentinelUrls ==
    { UrlWithoutPort(p, h) : p \in {"http", "https"}, h \in {"0.0.0.0", "true"} }
    \cup { UrlWithPort(p, h, n) : p \in {"http", "https"}, h \in {"0.0.0.0", "true"},
                                  n \in Ports }

\* the Resolver has returned a configuration whose CORS origin set it built
\* itself (the user set no server.cors)
ResolverBuiltCors == phase = "configured" /\ userConfig.cors = Undefined

\* the origin entries of the CORS setting the Resolver returned
CorsOrigins ==
    LET o == configResult.value.cors.origin
    IN  { o[i] : i \in 1..Len(o) }

\* the protocol the user's TLS setting stands for
UserProtocol == IF userConfig.https = Undefined THEN "http" ELSE "https"

\* C4: whenever the effective host is the all-interfaces sentinel, the host of
\* the advertised URL (on listening) and the host of the Resolver's CORS
\* origin entry are 'localhost'; the sentinel never appears in the artifact,
\* in server.origin or in the CORS origin set.
C4_SentinelBecomesLocalhost ==
    /\ (Attached /\ lastEvent = "listening"
            /\ IsSentinel(EffectiveHost(pluginConfig.host, resolvedConfig.host))) =>
          /\ ArtifactDevServer = UrlOn(ResolvedProtocol, "localhost", lastPort)
          /\ resolvedConfig.origin = UrlOn(ResolvedProtocol, "localhost", lastPort)
    /\ (ResolverBuiltCors
            /\ IsSentinel(EffectiveHost(pluginConfig.host, userConfig.host))) =>
          Str(UrlWithoutPort(UserProtocol, "localhost")) \in CorsOrigins
    /\ Attached => /\ ArtifactDevServer \notin SentinelUrls
                   /\ resolvedConfig.origin \notin SentinelUrls
    /\ ResolverBuiltCors => \A u \in SentinelUrls : Str(u) \notin CorsOrigins

\* listening with the bundler's host set to `true` and no override
C4_Witness ==
    /\ Attached
    /\ lastEvent = "listening"
    /\ pluginConfig.host = Undefined
    /\ resolvedConfig.host = Bool(TRUE)
    /\ lastPort = 5173
    /\ ArtifactDevServer = "http://localhost:5173"

----------------------------------------------------------------------------
(* C5 *)

\* C5: the advertised host is the plugin's host override if given, else the
\* resolved configuration's server host, else 'localhost'; the CORS origin
\* uses the same override, so an override H that is no sentinel wins over a
\* bundler-level host that is the sentinel, in the URL and in the CORS origin.
C5_HostPriority ==
    /\ (Attached /\ lastEvent = "listening") =>
          LET override == pluginConfig.host
              server == resolvedConfig.host
              url(h) == UrlOn(ResolvedProtocol, h, lastPort)
          IN  /\ (override # Undefined /\ ~IsSentinel(override)) =>
                    ArtifactDevServer = url(override.s)
              /\ (override = Undefined /\ server # Undefined /\ ~IsSentinel(server)) =>
                    ArtifactDevServer = url(server.s)
              /\ (override = Undefined /\ server = Undefined) =>
                    ArtifactDevServer = url("localhost")
              /\ resolvedConfig.origin = ArtifactDevServer
    /\ (ResolverBuiltCors /\ pluginConfig.host # Undefined
            /\ ~IsSentinel(pluginConfig.host)) =>
          Str(UrlWithoutPort(UserProtocol, pluginConfig.host.s)) \in CorsOrigins

\* override 192.168.1.200 while the bundler binds all interfaces
C5_Witness ==
    /\ Attached
    /\ lastEvent = "listening"
    /\ pluginConfig.host = Str("192.168.1.200")
    /\ resolvedConfig.host = Bool(TRUE)
    /\ lastPort = 5173
    /\ ArtifactDevServer = "http://192.168.1.200:5173"

----------------------------------------------------------------------------
(* C6 *)

\* a callback that ends the process is subscribed to the listener's 'close'
ExitPending == \E i \in 1..Len(closeHandlers) : closeHandlers[i].kind = "closed"

\* C6: on an interrupt, in any Coordinator state, the listener is asked to
\* close; the process ends, with status 0, only at the listener's close, and
\* when it has ended the artifact file does not exist.
C6_InterruptLeavesNoArtifact ==
    /\ (Attached /\ sigints > 0 /\ proc = "running") =>
          (closeRequested /\ ExitPending)
    /\ proc = "exited" =>
          /\ exitCode = 0
          /\ sigints > 0
          /\ lastEvent = "close"
          /\ ~ArtifactExists

\* the process has ended at the close that followed a listening event
C6_Witness ==
    /\ proc = "exited"
    /\ Len(recent) >= 2
    /\ recent[Len(recent) - 1] = "listening"
    /\ lastWrite.err = "none"
    /\ lastWrite.path = ArtifactPath
    /\ ~ArtifactExists

----------------------------------------------------------------------------
(* C10 *)

\* the resolved output directory: build.outDir taken from the root directory
ResolvedOutDir == PathResolve(<<resolvedConfig.root, resolvedConfig.outDir>>)

\* C10: on a listening event the artifact is written at
\* '<resolved output directory>/<infoFilePath>' (default '.vite/nette.json'),
\* and the write succeeds whether the intermediate directories are all
\* missing or already exist.
C10_ArtifactWrittenAtPath ==
    /\ phase # "init" =>
          pluginConfig.infoFile \in { Path(FALSE, <<".vite", "nette.json">>),
                                      Path(FALSE, <<"a", "b", "c", "info.json">>) }
    /\ Attached => ArtifactPath = ResolvedOutDir \o pluginConfig.infoFile.segs
    /\ (Attached /\ lastEvent = "listening") =>
          /\ proc = "running"
          /\ lastWrite.err = "none"
          /\ lastWrite.path = ResolvedOutDir \o pluginConfig.infoFile.segs
          /\ ArtifactExists
          /\ Prefixes(Dirname(ArtifactPath)) \subseteq fsDirs

\* a/b/c/info.json under an output directory that did not exist: the first
\* listening event created every directory, the second found them in place
C10_Witness ==
    /\ Attached
    /\ recent = <<"listening", "close", "listening">>
    /\ pluginConfig.infoFile = Path(FALSE, <<"a", "b", "c", "info.json">>)
    /\ resolvedConfig.outDir = Path(FALSE, <<"dist">>)
    /\ lastWrite.dirExisted
    /\ lastWrite.created = {}
    /\ ArtifactExists

----------------------------------------------------------------------------
(* C7 *)

\* the config() hook has run
Resolved == phase \in {"configured", "configFailed"}

\* C7: configuration resolution fails, with an error naming
\* '<cwd>/www/assets', exactly when no build.outDir was given and there is no
\* 'www' directory under the working directory; with build.outDir given the
\* directory is not looked up at all.
C7_FailsIffNoOutDirAndNoWww ==
    Resolved =>
        /\ configResult.threw <=>
              (userConfig.outDir = Undefined /\ (Cwd \o <<"www">>) \notin fsDirs)
        /\ configResult.threw =>
              /\ configResult.error.path = Cwd \o <<"www", "assets">>
              /\ phase = "configFailed"
        /\ userConfig.outDir # Undefined => probed = {}
        /\ userConfig.outDir = Undefined => probed = {Cwd \o <<"www">>}

\* resolution has failed for want of 'www'
C7_Witness ==
    /\ phase = "configFailed"
    /\ configResult.threw
    /\ userConfig.outDir = Undefined
    /\ (Cwd \o <<"www">>) \notin fsDirs

----------------------------------------------------------------------------
(* C8 *)

\* a host override that names a host other than 'localhost' and the
\* all-interfaces address
NamedOverride ==
    pluginConfig.host \notin {Undefined, Str("localhost"), Str("0.0.0.0")}

\* C8: the resolved allowed-hosts list includes the host override H whenever
\* an override different from 'localhost' was given, whatever else the user
\* set (a server.allowedHosts of their own included).
C8_OverrideIsAllowed ==
    (phase = "configured" /\ NamedOverride) =>
        LET allowed == configResult.value.allowedHosts
        IN  /\ allowed.t = "array"
            /\ \E i \in 1..Len(allowed.l) : allowed.l[i] = pluginConfig.host

----------------------------------------------------------------------------
(* C9 *)

\* the host of the CORS origin: the effective host, 'localhost' standing for
\* the all-interfaces sentinel
CorsHostText ==
    LET h == EffectiveHost(pluginConfig.host, userConfig.host)
    IN  IF IsSentinel(h) THEN "localhost" ELSE h.s

\* the Resolver's CORS setting trusts the bundler's defaults and the project
HasProjectOrigins ==
    /\ configResult.value.cors.t = "object"
    /\ defaultAllowedOrigins \in CorsOrigins
    /\ Str(UrlWithoutPort(UserProtocol, CorsHostText)) \in CorsOrigins

\* C9 as stated: for every user configuration the CORS origin set of the
\* Resolver contains the bundler's default allowed origins and
\* '<protocol>://<effective host>'.
C9_CorsAlwaysHasProjectOrigins ==
    phase = "configured" => HasProjectOrigins

\* C9 (amended): for every user configuration that sets no server.cors, the
\* CORS origin set of the Resolver contains the bundler's default allowed
\* origins and '<protocol>://<effective host>'; a server.cors the user set is
\* returned as it is.
C9_CorsHasProjectOriginsByDefault ==
    phase = "configured" =>
        IF userConfig.cors = Undefined
        THEN HasProjectOrigins /\ Cardinality(CorsOrigins) = 2
        ELSE configResult.value.cors = userConfig.cors

\* host example.com with TLS: the origin set holds 'https://example.com'
C9_Witness ==
    /\ phase = "configured"
    /\ userConfig.cors = Undefined
    /\ userConfig.host = Str("example.com")
    /\ userConfig.https = Bool(TRUE)
    /\ pluginConfig.host = Undefined
    /\ Str("https://example.com") \in CorsOrigins

----------------------------------------------------------------------------
(* C11 *)

\* the entries as the plugin options list them: a single entry is a list of one
ConfiguredEntries ==
    IF pluginConfig.entry.t = "array" THEN pluginConfig.entry.l ELSE <<pluginConfig.entry>>

\* the root directory the user gave or the default, as an absolute path
AbsoluteRoot ==
    LET r == IF userConfig.root = Undefined THEN <<"assets">> ELSE userConfig.root.segs
    IN  Cwd \o r

\* C11: when an entry is configured, the build input is a list of the same
\* length and order as the entries, a relative entry replaced by
\* '<root>/<entry>' and an absolute entry kept; with no entry the input is
\* undefined.
C11_EntryResolution ==
    phase = "configured" =>
        LET input == configResult.value.input
        IN  IF pluginConfig.entry = Undefined
            THEN input = Undefined
            ELSE /\ input.t = "array"
                 /\ Len(input.l) = Len(ConfiguredEntries)
                 /\ \A i \in 1..Len(ConfiguredEntries) :
                       LET e == ConfiguredEntries[i]
                       IN  input.l[i] = IF e.abs THEN e
                                        ELSE Path(TRUE, AbsoluteRoot \o e.segs)

\* ['/abs/app.js', 'main.js'] under the root 'client'
C11_Witness ==
    /\ phase = "configured"
    /\ userConfig.root = Path(FALSE, <<"client">>)
    /\ pluginConfig.entry.t = "array"
    /\ configResult.value.input =
          List(<<Path(TRUE, <<"abs", "app.js">>),
                 Path(TRUE, <<"proj", "client", "main.js">>)>>)

----------------------------------------------------------------------------
(* C12 *)

\* the user's value if there is one, the default otherwise
UserOr(v, default) == IF v = Undefined THEN default ELSE v

\* C12: root, base, build.manifest and build.assetsDir are the user's values
\* where the user gave them and 'assets', '', true and '' otherwise;
\* server.origin is the empty string.
C12_UserValueElseDefault ==
    phase = "configured" =>
        LET r == configResult.value
        IN  /\ r.root = UserOr(userConfig.root, Path(FALSE, <<"assets">>))
            /\ r.base = UserOr(userConfig.base, Str(""))
            /\ r.manifest = UserOr(userConfig.manifest, Bool(TRUE))
            /\ r.assetsDir = UserOr(userConfig.assetsDir, Str(""))
            /\ r.origin = ""

\* the user turned the manifest off and set nothing else
C12_Witness ==
    /\ phase = "configured"
    /\ userConfig.manifest = Bool(FALSE)
    /\ userConfig.root = Undefined
    /\ userConfig.base = Undefined
    /\ userConfig.assetsDir = Str("static")
    /\ configResult.value.manifest = Bool(FALSE)
    /\ configResult.value.root = Path(FALSE, <<"assets">>)
    /\ configResult.value.assetsDir = Str("static")
    /\ configResult.value.origin = ""

----------------------------------------------------------------------------
(* C13 *)

\* C13: a 'close' event delivered while the artifact file does not exist
\* (no 'listening' before it, or the file already removed by an earlier
\* 'close') raises no error and leaves the files, the directories and
\* server.origin as they were.
C13_CloseWithoutArtifactIsNoop ==
    [][(EmitClose /\ Attached /\ ~ArtifactExists) =>
          /\ fsFiles' = fsFiles
          /\ fsDirs' = fsDirs
          /\ resolvedConfig'.origin = resolvedConfig.origin
          /\ lastWrite' = lastWrite
          /\ proc' # "crashed"]_vars

\* a second 'close' after the first removed the file: nothing is left to
\* remove, the process runs on and server.origin still holds the URL
C13_Witness ==
    /\ Attached
    /\ recent = <<"listening", "close", "close">>
    /\ ~ArtifactExists
    /\ proc = "running"
    /\ resolvedConfig.origin \in AllUrls

----------------------------------------------------------------------------
(* C14 *)

\* the host of the URL the Coordinator advertises: the effective host,
\* 'localhost' standing for the all-interfaces sentinel
ListenerHostText ==
    LET h == EffectiveHost(pluginConfig.host, resolvedConfig.host)
    IN  IF IsSentinel(h) THEN "localhost" ELSE h.s

\* the URL of the dev server when its listener is bound to `port`
ListenerUrl(port) == UrlOn(ResolvedProtocol, ListenerHostText, port)

\* C14: server.origin is the empty string until the first 'listening' event;
\* every 'listening' event sets it to the URL computed at that event, and no
\* other step (a 'close' event, an interrupt, the attachment of the
\* Coordinator) changes it.
C14_OriginSingleWriter ==
    /\ []((resolvedConfig # Undefined /\ ~everListened) => resolvedConfig.origin = "")
    /\ [][resolvedConfig # Undefined =>
             IF \E port \in Ports : EmitListening(port) /\ Attached
             THEN resolvedConfig'.origin = ListenerUrl(lastPort')
             ELSE resolvedConfig'.origin = resolvedConfig.origin]_vars

\* after a 'listening' on 3000, a 'close' and an interrupt, server.origin is
\* still the URL of port 3000
C14_Witness ==
    /\ Attached
    /\ recent = <<"listening", "close">>
    /\ sigints = 1
    /\ lastPort = 3000
    /\ proc = "running"
    /\ resolvedConfig.origin = ListenerUrl(3000)

----------------------------------------------------------------------------
(* C18 *)

\* C18: the artifact path does not change once the Coordinator is attached;
\* after every 'listening' event, one that follows a 'close' and binds another
\* port included, the file at that path and server.origin hold the URL of the
\* port just bound, and a 'close' after it removes that file, the only file
\* the Coordinator ever wrote.
C18_UrlFollowsPort ==
    /\ [][Attached => ArtifactPath' = ArtifactPath]_vars
    /\ []((Attached /\ lastEvent = "listening") =>
             /\ DOMAIN fsFiles = {ArtifactPath}
             /\ lastWrite.path = ArtifactPath
             /\ ArtifactDevServer = ListenerUrl(lastPort)
             /\ resolvedConfig.origin = ListenerUrl(lastPort))
    /\ []((Attached /\ lastEvent = "close") => DOMAIN fsFiles = {})

\* bound to 5173, closed, bound again to 3000: the artifact and
\* server.origin hold the URL of port 3000
C18_Witness ==
    /\ Attached
    /\ recent = <<"listening", "close", "listening">>
    /\ prevPort = 5173
    /\ lastPort = 3000
    /\ ArtifactDevServer = ListenerUrl(3000)
    /\ resolvedConfig.origin = ListenerUrl(3000)
    /\ ListenerUrl(3000) # ListenerUrl(5173)

----------------------------------------------------------------------------
(* C19 *)

\* C19: a Coordinator is attached exactly when the dev server is configured
\* with the command 'serve' and has an HTTP listener; as long as none is
\* attached there is no 'listening', 'close' or SIGINT subscription, no file
\* has been written and server.origin is the empty string.
C19_AttachedOnlyWhenServing ==
    /\ Attached <=>
          (phase = "serving" /\ resolvedConfig.command = "serve" /\ hasHttpServer)
    /\ ~Attached =>
          /\ listeningHandlers = <<>>
          /\ closeHandlers = <<>>
          /\ sigintHandlers = <<>>
          /\ DOMAIN fsFiles = {}
          /\ lastWrite = NoWrite
          /\ resolvedConfig # Undefined => resolvedConfig.origin = ""

\* a build with an HTTP listener that has been bound, closed and bound again:
\* nothing was subscribed and nothing written
C19_Witness ==
    /\ phase = "serving"
    /\ resolvedConfig.command = "build"
    /\ hasHttpServer
    /\ recent = <<"listening", "close", "listening">>
    /\ ~Attached
    /\ DOMAIN fsFiles = {}
    /\ resolvedConfig.origin = ""

----------------------------------------------------------------------------
(* C16 *)

\* the host of the URL, by the options the Coordinator's own plugin was
\* constructed with
OwnHostText ==
    LET h == EffectiveHost(ownOptions.host, resolvedConfig.host)
    IN  IF IsSentinel(h) THEN "localhost" ELSE h.s

\* C16: the host override and the info-file path a Coordinator applies at its
\* 'listening' and 'close' events are those its plugin was constructed with,
\* whatever plugin instances are constructed in the same process afterwards.
C16_UsesOwnOptions ==
    /\ Attached => ArtifactPath = ResolvedOutDir \o ownOptions.infoFile.segs
    /\ (Attached /\ lastEvent = "listening") =>
          /\ resolvedConfig.origin = UrlOn(ResolvedProtocol, OwnHostText, lastPort)
          /\ ArtifactDevServer = UrlOn(ResolvedProtocol, OwnHostText, lastPort)

----------------------------------------------------------------------------
(* C17 *)

\* how many of the handlers `hs` are of kind `kind` and belong to listener `srv`
CountOf(hs, kind, srv) ==
    Cardinality({ i \in 1..Len(hs) : hs[i].kind = kind /\ hs[i].srv = srv })

\* hs is an initial part of hs2
IsPrefix(hs, hs2) == Len(hs) <= Len(hs2) /\ SubSeq(hs2, 1, Len(hs)) = hs

\* C17: after k attachments the process has k SIGINT handlers, one for each
\* attached listener; an attachment adds one, no step removes any, and one
\* interrupt calls close() once on each of the k listeners.
C17_OneSigintHandlerPerAttachment ==
    /\ [](/\ Len(sigintHandlers) = Attachments
          /\ \A srv \in 1..Attachments :
                /\ CountOf(sigintHandlers, "sigint", srv) = 1
                /\ CountOf(listeningHandlers, "listening", srv) = 1)
    /\ [][IsPrefix(sigintHandlers, sigintHandlers')]_vars
    /\ [][Sigint =>
             \A srv \in 1..Attachments :
                CountOf(closeHandlers', "closed", srv)
                   = CountOf(closeHandlers, "closed", srv) + 1]_vars

\* two attachments, one interrupt: two SIGINT handlers, and a close()
\* callback pending on each of the two listeners
C17_Witness ==
    /\ Attachments = 2
    /\ Len(sigintHandlers) = 2
    /\ sigints = 1
    /\ proc = "running"
    /\ CountOf(closeHandlers, "closed", 1) = 1
    /\ CountOf(closeHandlers, "closed", 2) = 1

----------------------------------------------------------------------------
(* C15 *)

\* the artifact cannot be written: a directory is in its place, or a file is
\* in the place of one of the directories above it
WriteBlocked ==
    \/ ArtifactPath \in fsDirs
    \/ \E q \in Prefixes(Dirname(ArtifactPath)) : q \in DOMAIN fsFiles

\* C15: a 'listening' event at which the directories cannot be created or the
\* artifact cannot be written ends the process with the uncaught error:
\* server.origin and the files are as they were before the event, and
\* nothing runs afterwards, the write is not tried again.
C15_WriteFailurePropagates ==
    /\ [][((\E port \in FaultPorts : EmitListening(port)) /\ Attached) =>
             IF WriteBlocked
             THEN /\ proc' = "crashed"
                  /\ exitCode' = 1
                  /\ lastWrite'.err # "none"
                  /\ resolvedConfig'.origin = resolvedConfig.origin
                  /\ fsFiles' = fsFiles
             ELSE /\ proc' = "running"
                  /\ lastWrite'.err = "none"]_vars
    /\ [][proc # "crashed"]_vars

\* bound to 3000 and closed, then a directory appeared in the artifact's
\* place: the 'listening' on 5173 failed and server.origin is still the URL
\* of port 3000
C15_Witness ==
    /\ Attached
    /\ recent = <<"listening", "close", "listening">>
    /\ prevPort = 3000
    /\ lastPort = 5173
    /\ proc = "crashed"
    /\ lastWrite.err # "none"
    /\ ArtifactPath \in fsDirs
    /\ resolvedConfig.origin = ListenerUrl(3000)

====
